---- MODULE Spec2Model ----
(***************************************************************************)
(* Authentication and token lifecycle of the quickblog backend:           *)
(* the User model (models/User.js), the auth middleware (auth, adminAuth,  *)
(* optionalAuth, verifyRefreshToken), the admin routes of routes/users.js  *)
(* and the seed script.  Requests are handled concurrently: a handler is   *)
(* split at every await on the document store, and the steps of different  *)
(* requests interleave.                                                    *)
(***************************************************************************)
EXTENDS Integers, FiniteSets, Sequences, TLC

\* ------------------------------------------------------------------ bounds
\* The clock counts seconds (the unit of a token's iat/exp) from 0 to MaxTime.
MaxTime == 1
\* expiresIn '7d' of the refresh token, scaled to clock ticks.
RefreshTTL == 1
\* JWT_EXPIRE || '7d' of the access token, scaled to clock ticks.
AccessTTL == 1
\* Regular users the seed script creates beside the admin (5 in the script).
SeedUsers == 1
\* Times the seed script is run again on a live database.
MaxSeedRuns == 1
\* Requests suspended at an await at the same time.
MaxInflight == 2
\* Tokens of each kind the clients hold.
MaxIssued == 2
\* Writing operations started: requests that got past their gate into a handler
\* that saves, and runs of the seed script.
MaxRequests == 3
\* Blogs the seed script creates (6 in the script).
SeedBlogs == 1
\* Blog ids handed out before POST /api/blogs is no longer taken.
MaxBlogs == 3
\* Writing operations after which no further blog request is started.
MaxBlogRequests == 2
\* Date values read from the clock run from 0 to MaxClock.
MaxClock == 1

VARIABLES
  users,          \* the User collection: _id -> document
  nextId,         \* the next fresh ObjectId
  now,            \* the clock, in seconds
  clock,          \* the clock Date values are read from, finer than a second
  issuedAccess,   \* access tokens returned to clients
  issuedRefresh,  \* refresh tokens returned to clients
  inflight,       \* slot -> the request suspended there, or Idle
  resp,           \* the last response sent (or the last hand-over to a handler)
  revoked,        \* history: refresh tokens whose removal a logout has saved
  started,        \* history: the number of writing operations started
  blogs,          \* the Blog collection: _id -> document
  nextBlogId      \* the next fresh ObjectId of a blog

vars == <<users, nextId, now, clock, issuedAccess, issuedRefresh, inflight, resp, revoked, started,
          blogs, nextBlogId>>

UserIds == 1..((1 + SeedUsers) * (1 + MaxSeedRuns))
Slots == 1..MaxInflight

\* ------------------------------------------------------------ the User model
NullDoc == [_id |-> 0]

\* pre('save'): the password is hashed when it is modified (or the document new).
bcryptHash(plain) == <<"bcrypt", plain>>

comparePassword(doc, candidatePassword) == doc.password = <<"bcrypt", candidatePassword>>

\* A hook that hashes this.password on every save, modified or not.
preSaveAlwaysHash(doc, modifiedPaths) == [doc EXCEPT !.password = <<"bcrypt">> \o @]

\* pre('save'): returns at once unless the password path is modified.
preSave(doc, modifiedPaths) ==
  IF "password" \notin modifiedPaths THEN doc
  ELSE [doc EXCEPT !.password = bcryptHash(@)]

\* new User({...}) followed by save(): schema defaults, hashed password.
NewUser(id, email, password, role) ==
  [_id |-> id, email |-> email, password |-> bcryptHash(password), role |-> role,
   isActive |-> TRUE, lastLogin |-> now, refreshTokens |-> {}]

AdminEmail == <<"admin", 0>>
UserEmail(i) == <<"user", i>>
AdminPassword == "Admin123!"
UserPassword == "User123!"

\* The users the seed script inserts, with fresh ids starting at first.
SeededUsers(first) ==
  [id \in first..(first + SeedUsers) |->
     IF id = first THEN NewUser(id, AdminEmail, AdminPassword, "admin")
     ELSE NewUser(id, UserEmail(id - first), UserPassword, "user")]

findById(id) == IF id \in DOMAIN users THEN users[id] ELSE NullDoc

\* ------------------------------------------------------------ the Blog model
\* new Blog({...}): likes is the array of the users who liked, comments the
\* number of comments pushed.
NewBlog(id, author, isDraft, publishedAt) ==
  [_id |-> id, author |-> author, isDraft |-> isDraft, isPublished |-> ~isDraft,
   publishedAt |-> publishedAt, featured |-> FALSE, views |-> 0, likes |-> <<>>,
   comments |-> 0]

\* The collections the seed script can leave behind: published blogs, each by
\* one of the regular users (users[Math.floor(Math.random() * users.length)]).
SeededBlogs(firstBlog, firstUser) ==
  [(firstBlog..(firstBlog + SeedBlogs - 1)) -> (firstUser + 1)..(firstUser + SeedUsers)]

SeedBlogDocs(authors) == [id \in DOMAIN authors |-> NewBlog(id, authors[id], FALSE, clock)]

NullBlog == [_id |-> 0]

BlogFindById(id) == IF id \in DOMAIN blogs THEN blogs[id] ELSE NullBlog

\* .select('-password -refreshTokens')
\* A lookup without .select('-password -refreshTokens').
SelectWhole(doc) == doc

SelectPublic(doc) ==
  [_id |-> doc._id, email |-> doc.email, role |-> doc.role,
   isActive |-> doc.isActive, lastLogin |-> doc.lastLogin]

\* toJSON: toObject() with password, refreshTokens and __v deleted.
toJSON(doc) ==
  [f \in DOMAIN doc \ {"password", "refreshTokens", "__v"} |-> doc[f]]

\* ------------------------------------------------------------------ tokens
JWT_SECRET == "JWT_SECRET"

\* A refresh flow verifying with the primary secret itself.
SameSecret == JWT_SECRET

\* process.env.JWT_SECRET + 'refresh'
RefreshSecret == "JWT_SECRETrefresh"

\* jwt.sign(payload, secret, {expiresIn}): HS256 is deterministic, iat is the
\* clock in seconds: the token string is a function of payload, key and second.
jwtSign(payload, secret, ttl) ==
  [payload |-> payload, key |-> secret, iat |-> now, exp |-> now + ttl]

\* jwt.verify: the signature first, then the expiry claim.
jwtVerify(token, secret) ==
  IF token.key # secret THEN "JsonWebTokenError"
  ELSE IF now >= token.exp THEN "TokenExpiredError"
  ELSE "ok"

\* An access token signed with the refresh secret.
generateAuthTokenRefreshKey(doc) ==
  jwtSign([id |-> doc._id, email |-> doc.email, role |-> doc.role], RefreshSecret, AccessTTL)

generateAuthToken(doc) ==
  jwtSign([id |-> doc._id, email |-> doc.email, role |-> doc.role], JWT_SECRET, AccessTTL)

\* A refresh token signed without the 'refresh' suffix on the secret.
generateRefreshTokenPrimaryKey(doc) == jwtSign([id |-> doc._id], JWT_SECRET, RefreshTTL)

\* The token generateRefreshToken signs and returns.
generateRefreshToken(doc) == jwtSign([id |-> doc._id], RefreshSecret, RefreshTTL)

\* The entry generateRefreshToken pushes on this.refreshTokens (createdAt: Date.now).
RefreshEntry(token) == [token |-> token, createdAt |-> now]

\* removeRefreshToken: this.refreshTokens.filter(tokenObj => tokenObj.token !== t)
removeRefreshToken(entries, tokenToRemove) == {e \in entries : e.token # tokenToRemove}

\* A string that is no JWT at all, and a token whose signature segment was changed.
Garbage == [payload |-> [id |-> 0], key |-> "malformed", iat |-> 0, exp |-> 0]
Tamper(token) == [token EXCEPT !.key = "tampered"]

\* ------------------------------------------------------------ the middleware
Deny(status, message, lookup) ==
  [status |-> status, message |-> message, next |-> FALSE, user |-> NullDoc,
   refreshToken |-> <<>>, lookup |-> lookup]

Pass(user, refreshToken) ==
  [status |-> 0, message |-> "", next |-> TRUE, user |-> user,
   refreshToken |-> refreshToken, lookup |-> TRUE]

\* The Authorization header: <<>> absent, <<"Bearer">> with nothing after the
\* prefix, <<scheme, token>> otherwise.
\* A header check that only asks whether the header is there.
headerPresent(header) == header # <<>>

\* authHeader && authHeader.startsWith('Bearer ')
startsWithBearer(header) == header # <<>> /\ header[1] = "Bearer"

\* A catch block that answers 'Invalid token' to both jsonwebtoken errors.
authCatchInvalidOnly(error, lookup) ==
  IF error \in {"JsonWebTokenError", "TokenExpiredError"}
  THEN Deny(401, "Invalid token", lookup)
  ELSE Deny(500, "Server error during authentication", lookup)

\* A catch block that puts the error's own name in the 500 answer.
authCatchLeaksError(error, lookup) ==
  IF error = "JsonWebTokenError" THEN Deny(401, "Invalid token", lookup)
  ELSE IF error = "TokenExpiredError" THEN Deny(401, "Token expired", lookup)
  ELSE Deny(500, error, lookup)

\* auth's catch block, by error.name.
authCatch(error, lookup) ==
  IF error = "JsonWebTokenError" THEN Deny(401, "Invalid token", lookup)
  ELSE IF error = "TokenExpiredError" THEN Deny(401, "Token expired", lookup)
  ELSE Deny(500, "Server error during authentication", lookup)

\* auth without its !user check: user.isActive of null throws a TypeError.
authResolveNoNullCheck(token, db) ==
  IF db = "error" THEN authCatch("MongoError", TRUE)
  ELSE LET user == findById(token.payload.id)
       IN IF user = NullDoc THEN authCatch("TypeError", TRUE)
          ELSE IF ~user.isActive THEN Deny(401, "User account is deactivated", TRUE)
          ELSE Pass(SelectPublic(user), <<>>)

\* auth without its !user.isActive check.
authResolveNoActiveCheck(token, db) ==
  IF db = "error" THEN authCatch("MongoError", TRUE)
  ELSE LET user == findById(token.payload.id)
       IN IF user = NullDoc THEN Deny(401, "Token is not valid - user not found", TRUE)
          ELSE Pass(SelectPublic(user), <<>>)

\* An auth that also wants a live session: some refresh token in the store.
authResolveNeedsSession(token, db) ==
  IF db = "error" THEN authCatch("MongoError", TRUE)
  ELSE LET user == findById(token.payload.id)
       IN IF user = NullDoc THEN Deny(401, "Token is not valid - user not found", TRUE)
          ELSE IF ~user.isActive THEN Deny(401, "User account is deactivated", TRUE)
          ELSE IF user.refreshTokens = {} THEN Deny(401, "Token is not valid", TRUE)
          ELSE Pass(SelectPublic(user), <<>>)

\* An auth that takes the role from the token's payload, not from the store.
authResolveTokenRole(token, db) ==
  IF db = "error" THEN authCatch("MongoError", TRUE)
  ELSE LET user == findById(token.payload.id)
       IN IF user = NullDoc THEN Deny(401, "Token is not valid - user not found", TRUE)
          ELSE IF ~user.isActive THEN Deny(401, "User account is deactivated", TRUE)
          ELSE Pass([SelectPublic(user) EXCEPT !.role = token.payload.role], <<>>)

\* auth after jwt.verify returned: the lookup, the two checks, req.user.
\* db is how the store answers the lookup.
authResolve(token, db) ==
  IF db = "error" THEN authCatch("MongoError", TRUE)
  ELSE LET user == findById(token.payload.id)
       IN IF user = NullDoc THEN Deny(401, "Token is not valid - user not found", TRUE)
          ELSE IF ~user.isActive THEN Deny(401, "User account is deactivated", TRUE)
          ELSE Pass(SelectPublic(user), <<>>)

auth(header, db) ==
  IF ~startsWithBearer(header)
  THEN Deny(401, "No token provided, authorization denied", FALSE)
  ELSE IF Tail(header) = <<>>
  THEN Deny(401, "No token provided, authorization denied", FALSE)
  ELSE LET token == header[2]
           verdict == jwtVerify(token, JWT_SECRET)
       IN IF verdict # "ok" THEN authCatch(verdict, FALSE) ELSE authResolve(token, db)

\* An optionalAuth that forgets the isActive half of its test.
optionalAuthNoActiveCheck(header, db) ==
  LET hasToken == startsWithBearer(header) /\ Tail(header) # <<>>
      threw == hasToken /\ (jwtVerify(header[2], JWT_SECRET) # "ok" \/ db = "error")
      user == IF hasToken /\ ~threw THEN findById(header[2].payload.id) ELSE NullDoc
  IN [status |-> 0, message |-> "", next |-> TRUE,
      nexts |-> (IF threw THEN 0 ELSE 1) + (IF threw THEN 1 ELSE 0),
      user |-> IF user # NullDoc THEN SelectPublic(user) ELSE NullDoc,
      refreshToken |-> <<>>, lookup |-> hasToken /\ jwtVerify(header[2], JWT_SECRET) = "ok"]

\* optionalAuth: threw is whether jwt.verify or findById throws inside the try
\* block; next() is called at its end, or in the catch block.  It sends no
\* response (status 0).
optionalAuth(header, db) ==
  LET hasToken == startsWithBearer(header) /\ Tail(header) # <<>>
      threw == hasToken /\ (jwtVerify(header[2], JWT_SECRET) # "ok" \/ db = "error")
      user == IF hasToken /\ ~threw THEN findById(header[2].payload.id) ELSE NullDoc
  IN [status |-> 0, message |-> "", next |-> TRUE,
      nexts |-> (IF threw THEN 0 ELSE 1) + (IF threw THEN 1 ELSE 0),
      user |-> IF user # NullDoc /\ user.isActive THEN SelectPublic(user) ELSE NullDoc,
      refreshToken |-> <<>>, lookup |-> hasToken /\ jwtVerify(header[2], JWT_SECRET) = "ok"]

\* An admin gate that only checks that a user is attached.
adminAuthAnyUser(reqUser) ==
  IF reqUser # NullDoc
  THEN Pass(reqUser, <<>>)
  ELSE Deny(403, "Access denied. Admin privileges required.", FALSE)

adminAuth(reqUser) ==
  IF reqUser # NullDoc /\ reqUser.role = "admin"
  THEN Pass(reqUser, <<>>)
  ELSE Deny(403, "Access denied. Admin privileges required.", FALSE)

\* A refresh flow that verifies with ignoreExpiration and leaves expiry to the
\* store's purge of old entries.
refreshResolveIgnoreExpiration(refreshToken, db) ==
  IF refreshToken.key # RefreshSecret
  THEN Deny(401, "Invalid or expired refresh token", FALSE)
  ELSE IF db = "error"
  THEN Deny(500, "Server error during refresh token verification", TRUE)
  ELSE LET user == findById(refreshToken.payload.id)
       IN IF user = NullDoc
          THEN Deny(401, "Invalid refresh token - user not found", TRUE)
          ELSE IF ~(\E tokenObj \in user.refreshTokens : tokenObj.token = refreshToken)
          THEN Deny(401, "Invalid refresh token", TRUE)
          ELSE Pass(user, <<refreshToken>>)

\* A refresh flow that forgets req.refreshToken = refreshToken.
refreshResolveNoTokenAttached(refreshToken, db) ==
  IF jwtVerify(refreshToken, RefreshSecret) # "ok"
  THEN Deny(401, "Invalid or expired refresh token", FALSE)
  ELSE IF db = "error"
  THEN Deny(500, "Server error during refresh token verification", TRUE)
  ELSE LET user == findById(refreshToken.payload.id)
       IN IF user = NullDoc
          THEN Deny(401, "Invalid refresh token - user not found", TRUE)
          ELSE IF ~(\E tokenObj \in user.refreshTokens : tokenObj.token = refreshToken)
          THEN Deny(401, "Invalid refresh token", TRUE)
          ELSE Pass(user, <<>>)

\* verifyRefreshToken once the body has a refreshToken.
refreshResolve(refreshToken, db) ==
  IF jwtVerify(refreshToken, RefreshSecret) # "ok"
  THEN Deny(401, "Invalid or expired refresh token", FALSE)
  ELSE IF db = "error"
  THEN Deny(500, "Server error during refresh token verification", TRUE)
  ELSE LET user == findById(refreshToken.payload.id)
       IN IF user = NullDoc
          THEN Deny(401, "Invalid refresh token - user not found", TRUE)
          ELSE IF ~(\E tokenObj \in user.refreshTokens : tokenObj.token = refreshToken)
          THEN Deny(401, "Invalid refresh token", TRUE)
          ELSE Pass(user, <<refreshToken>>)

\* A refresh flow that answers the malformed-input status to a missing token.
verifyRefreshTokenBadRequest(body, db) ==
  IF body = <<>>
  THEN Deny(400, "Refresh token is required", FALSE)
  ELSE refreshResolve(body[1], db)

\* The request body: <<>> without a refreshToken field, <<token>> with one.
verifyRefreshToken(body, db) ==
  IF body = <<>>
  THEN Deny(401, "Refresh token is required", FALSE)
  ELSE refreshResolve(body[1], db)

\* ------------------------------------------------------------------- inputs
\* What a client can send: the tokens it was given (of either kind), one of
\* them with its signature changed, or a string that is no token.
Headers ==
  {<<>>, <<"Bearer">>, <<"Basic", Garbage>>}
    \cup {<<"Bearer", t>> : t \in issuedAccess \cup issuedRefresh
                                  \cup {Tamper(t) : t \in issuedAccess} \cup {Garbage}}

Bodies ==
  {<<>>} \cup {<<t>> : t \in issuedAccess \cup issuedRefresh
                          \cup {Tamper(t) : t \in issuedRefresh} \cup {Garbage}}

\* How the store answers a call: normally, or with an error (it is unreachable).
DbAnswers == {"ok", "error"}

\* req.params.id: the id of a stored user, or one that matches no document.
TargetIds == DOMAIN users \cup {0}

Idle == [op |-> "idle"]
NoResp == [route |-> "none"]

\* What a request ends with: the response sent, or (status 200/201) the
\* handler's answer after the gates let it through with user attached.
Response(route, input, status, message, user) ==
  [route |-> route, input |-> input, status |-> status, message |-> message,
   user |-> user, next |-> (status \in {200, 201})]

\* ------------------------------------------------------------- initial state
Init ==
  /\ now = 0
  /\ clock = 0
  /\ users = SeededUsers(1)
  /\ nextId = 2 + SeedUsers
  /\ \E authors \in SeededBlogs(1, 1) : blogs = SeedBlogDocs(authors)
  /\ nextBlogId = 1 + SeedBlogs
  /\ issuedAccess = {}
  /\ issuedRefresh = {}
  /\ inflight = [s \in Slots |-> Idle]
  /\ resp = NoResp
  /\ revoked = {}
  /\ started = 0

\* ----------------------------------------------------- the document store
\* What save() sends for a loaded document: $set of the modified paths and
\* $push of the entries pushed on refreshTokens.
Delta(set, push) == [set |-> set, push |-> push]
NoChange == <<>>

\* Assigning a whole array makes save() send the loaded version in its filter.
VersionWhere(delta) == "refreshTokens" \in DOMAIN delta.set

\* ... and every array change increments the version.
VersionInc(delta) == VersionWhere(delta) \/ delta.push # {}

\* save() rejects (DocumentNotFoundError, VersionError, or the store is down).
SaveFails(rec, db) ==
  \/ db = "error"
  \/ rec.doc._id \notin DOMAIN users
  \/ VersionWhere(rec.delta) /\ rec.stale

\* A save that writes the pushed entries over the stored array.
ApplyDeltaOverwrite(doc, delta) ==
  [f \in DOMAIN doc |->
     IF f \in DOMAIN delta.set THEN delta.set[f]
     ELSE IF f = "refreshTokens" /\ delta.push # {} THEN delta.push
     ELSE doc[f]]

\* A save that sends the pushed entries only and no $set.
ApplyDeltaPushOnly(doc, delta) ==
  [f \in DOMAIN doc |-> IF f = "refreshTokens" THEN doc[f] \cup delta.push ELSE doc[f]]

ApplyDelta(doc, delta) ==
  [f \in DOMAIN doc |->
     IF f \in DOMAIN delta.set THEN delta.set[f]
     ELSE IF f = "refreshTokens" THEN doc[f] \cup delta.push
     ELSE doc[f]]

\* The collection after rec's save went through.
Saved(rec) ==
  [users EXCEPT ![rec.doc._id] = preSave(ApplyDelta(@, rec.delta), DOMAIN rec.delta.set)]

\* The suspended requests after the save of the one in slot s: that one is
\* done, and a loaded document whose version the save incremented is stale.
AfterSave(s, rec) ==
  [r \in Slots |->
     IF r = s THEN Idle
     ELSE IF "doc" \in DOMAIN inflight[r] /\ inflight[r].doc._id = rec.doc._id
             /\ VersionInc(rec.delta)
     THEN [inflight[r] EXCEPT !.stale = TRUE]
     ELSE inflight[r]]

\* The loaded document as the handler holds it when it answers: the loaded
\* fields with the assigned paths over them.
InMemory(rec) == rec.delta.set @@ rec.doc

\* The fields of a loaded document its handler still reads after the load.
Loaded(doc) == [_id |-> doc._id, email |-> doc.email, role |-> doc.role]

HasFreeSlot == \E s \in Slots : inflight[s] = Idle
FreeSlot == CHOOSE s \in Slots : inflight[s] = Idle /\ \A r \in Slots : r < s => inflight[r] # Idle
Suspend(rec) ==
  /\ HasFreeSlot /\ started < MaxRequests
  /\ inflight' = [inflight EXCEPT ![FreeSlot] = rec]
  /\ started' = started + 1
  /\ UNCHANGED resp
Resume(s, rec) == inflight' = [inflight EXCEPT ![s] = rec] /\ UNCHANGED resp
Reply(response) == resp' = response /\ UNCHANGED <<inflight, started>>
Finish(s, response) == resp' = response /\ inflight' = [inflight EXCEPT ![s] = Idle]

\* The client keeps a returned token while it has room for one.
Keep(held, token) == IF Cardinality(held \cup {token}) <= MaxIssued THEN held \cup {token} ELSE held

\* The response has been delivered; the next step is taken after that.
Deliver ==
  /\ resp # NoResp
  /\ resp' = NoResp
  /\ UNCHANGED
       <<users, nextId, now, clock, issuedAccess, issuedRefresh, inflight, revoked, started, blogs, nextBlogId>>

\* Time passes between two readings of new Date().
ClockTick ==
  /\ resp = NoResp
  /\ clock < MaxClock
  /\ clock' = clock + 1
  /\ UNCHANGED
       <<users, nextId, now, issuedAccess, issuedRefresh, inflight, resp, revoked, started, blogs, nextBlogId>>

Tick ==
  /\ resp = NoResp
  /\ now < MaxTime
  /\ now' = now + 1
  /\ UNCHANGED
       <<users, nextId, clock, issuedAccess, issuedRefresh, inflight, resp, revoked, started, blogs, nextBlogId>>

\* -------------------------------------------------- GET /api/users/dashboard
\* auth, then a handler that only reads.
Dashboard(header, db) ==
  LET gate == auth(header, db)
  IN /\ resp = NoResp
     /\ resp' = IF gate.next
                THEN Response("dashboard", header, 200, "", gate.user)
                ELSE Response("dashboard", header, gate.status, gate.message, gate.user)
     /\ UNCHANGED
       <<users, nextId, now, clock, issuedAccess, issuedRefresh, inflight, revoked, started, blogs, nextBlogId>>

\* ------------------------------------------------------- POST /api/auth/login
\* findOne({ email, isActive: true }).select('+password')
\* A lookup by email alone, without isActive: true in the filter.
findOneAnyStatus(email) ==
  LET found == {id \in DOMAIN users : users[id].email = email}
  IN IF found = {} THEN NullDoc ELSE users[CHOOSE id \in found : TRUE]

findOneActive(email) ==
  LET found == {id \in DOMAIN users : users[id].email = email /\ users[id].isActive}
  IN IF found = {} THEN NullDoc ELSE users[CHOOSE id \in found : TRUE]

\* findByCredentials up to its save: "invalid" when it throws.
findByCredentials(email, password) ==
  LET user == findOneActive(email)
  IN IF user = NullDoc THEN "Invalid login credentials"
     ELSE IF ~comparePassword(user, password) THEN "Invalid login credentials"
     ELSE "found"

LoginsInFlight == Cardinality({s \in Slots : inflight[s].op = "login"})

LoginStart(email, password, db) ==
  /\ resp = NoResp
  /\ Cardinality(issuedRefresh) + LoginsInFlight < MaxIssued
  /\ IF db = "error"
     THEN Reply(Response("login", <<email>>, 500, "Server error during login", NullDoc))
     ELSE IF findByCredentials(email, password) # "found"
     THEN Reply(Response("login", <<email>>, 401, findByCredentials(email, password), NullDoc))
     ELSE Suspend([op |-> "login", pc |-> "saveLastLogin",
                   doc |-> Loaded(findOneActive(email)),
                   loadedTokens |-> findOneActive(email).refreshTokens,
                   delta |-> Delta("lastLogin" :> now, {}), stale |-> FALSE])
  /\ UNCHANGED <<users, nextId, now, clock, issuedAccess, issuedRefresh, revoked, blogs, nextBlogId>>

\* findByCredentials' save returns; the route signs both tokens and saves again.
LoginSaveLastLogin(s, db) ==
  LET rec == inflight[s]
      refreshToken == generateRefreshToken(rec.doc)
  IN /\ resp = NoResp
     /\ rec.op = "login" /\ rec.pc = "saveLastLogin"
     /\ IF SaveFails(rec, db)
        THEN /\ Finish(s, Response("login", <<rec.doc.email>>, 500, "Server error during login", NullDoc))
             /\ UNCHANGED users
        ELSE /\ users' = Saved(rec)
             /\ Resume(s, [op |-> "login", pc |-> "saveTokens", doc |-> rec.doc,
                           loadedTokens |-> rec.loadedTokens,
                           token |-> generateAuthToken(rec.doc), refreshToken |-> refreshToken,
                           delta |-> Delta(NoChange, {RefreshEntry(refreshToken)}),
                           stale |-> rec.stale])
     /\ UNCHANGED <<nextId, now, clock, issuedAccess, issuedRefresh, revoked, started, blogs, nextBlogId>>

LoginSaveTokens(s, db) ==
  LET rec == inflight[s]
  IN /\ resp = NoResp
     /\ rec.op = "login" /\ rec.pc = "saveTokens"
     /\ IF SaveFails(rec, db)
        THEN /\ Finish(s, Response("login", <<rec.doc.email>>, 500, "Server error during login", NullDoc))
             /\ UNCHANGED <<users, issuedAccess, issuedRefresh>>
        ELSE /\ users' = Saved(rec)
             /\ inflight' = AfterSave(s, rec)
             /\ resp' = Response("login", <<rec.refreshToken>>, 200, "Login successful", rec.doc)
             /\ issuedAccess' = Keep(issuedAccess, rec.token)
             /\ issuedRefresh' = Keep(issuedRefresh, rec.refreshToken)
     /\ UNCHANGED <<nextId, now, clock, revoked, started, blogs, nextBlogId>>

\* ----------------------------------------------------- POST /api/auth/refresh
\* verifyRefreshToken, then the handler mints an access token for req.user.
Refresh(body, db) ==
  LET gate == verifyRefreshToken(body, db)
  IN /\ resp = NoResp
     /\ IF gate.next
        THEN /\ resp' = Response("refresh", body, 200, "Token refreshed", gate.user)
             /\ issuedAccess' = Keep(issuedAccess, generateAuthToken(gate.user))
        ELSE /\ resp' = Response("refresh", body, gate.status, gate.message, gate.user)
             /\ UNCHANGED issuedAccess
     /\ UNCHANGED
       <<users, nextId, now, clock, issuedRefresh, inflight, revoked, started, blogs, nextBlogId>>

\* ------------------------------------------------------ POST /api/auth/logout
\* auth, then the handler loads the user, removes the token and saves.
LogoutDenied(header, db) ==
  LET gate == auth(header, db)
  IN /\ resp = NoResp
     /\ ~gate.next
     /\ Reply(Response("logout", <<>>, gate.status, gate.message, NullDoc))
     /\ UNCHANGED <<users, nextId, now, clock, issuedAccess, issuedRefresh, revoked, blogs, nextBlogId>>

LogoutStart(header, body) ==
  LET gate == auth(header, "ok")
  IN /\ resp = NoResp
     /\ gate.next
     /\ IF body = <<>>
        THEN Reply(Response("logout", <<>>, 200, "Logout successful", gate.user))
        ELSE Suspend([op |-> "logout", pc |-> "find",
                      reqUser |-> gate.user._id, refreshToken |-> body[1]])
     /\ UNCHANGED <<users, nextId, now, clock, issuedAccess, issuedRefresh, revoked, blogs, nextBlogId>>

LogoutDelta(user, token) ==
  IF removeRefreshToken(user.refreshTokens, token) = user.refreshTokens
  THEN Delta(NoChange, {})
  ELSE Delta("refreshTokens" :> removeRefreshToken(user.refreshTokens, token), {})

LogoutFind(s, db) ==
  LET rec == inflight[s]
      user == findById(rec.reqUser)
  IN /\ resp = NoResp
     /\ rec.op = "logout" /\ rec.pc = "find"
     /\ IF db = "error" \/ user = NullDoc
        THEN Finish(s, Response("logout", <<>>, 500, "Server error during logout", NullDoc))
        ELSE Resume(s, [op |-> "logout", pc |-> "save", reqUser |-> rec.reqUser,
                        refreshToken |-> rec.refreshToken, doc |-> Loaded(user),
                        delta |-> LogoutDelta(user, rec.refreshToken), stale |-> FALSE])
     /\ UNCHANGED
       <<users, nextId, now, clock, issuedAccess, issuedRefresh, revoked, started, blogs, nextBlogId>>

LogoutSave(s, db) ==
  LET rec == inflight[s]
  IN /\ resp = NoResp
     /\ rec.op = "logout" /\ rec.pc = "save"
     /\ IF SaveFails(rec, db)
        THEN /\ Finish(s, Response("logout", <<>>, 500, "Server error during logout", NullDoc))
             /\ UNCHANGED <<users, revoked>>
        ELSE /\ users' = Saved(rec)
             /\ inflight' = AfterSave(s, rec)
             /\ resp' = Response("logout", <<rec.refreshToken>>, 200, "Logout successful", rec.doc)
             /\ revoked' = IF VersionWhere(rec.delta) THEN revoked \cup {rec.refreshToken} ELSE revoked
     /\ UNCHANGED <<nextId, now, clock, issuedAccess, issuedRefresh, started, blogs, nextBlogId>>

\* --------------------------------------------------- PUT /api/users/:id/status
\* req.body.isActive with its typeof.
StatusBodies == {[type |-> "boolean", isActive |-> TRUE], [type |-> "boolean", isActive |-> FALSE],
                 [type |-> "string", isActive |-> TRUE]}

\* router.put(path, [auth, adminAuth], handler): the outcome of the two gates.
AdminGate(header, db) ==
  LET gate == auth(header, db)
  IN IF ~gate.next THEN gate ELSE adminAuth(gate.user)

StatusDenied(header, db) ==
  LET gate == AdminGate(header, db)
  IN /\ resp = NoResp
     /\ ~gate.next
     /\ Reply(Response("status", <<>>, gate.status, gate.message, NullDoc))
     /\ UNCHANGED <<users, nextId, now, clock, issuedAccess, issuedRefresh, revoked, blogs, nextBlogId>>

StatusStart(header, id, body) ==
  LET gate == AdminGate(header, "ok")
  IN /\ resp = NoResp
     /\ gate.next
     /\ IF body.type # "boolean"
        THEN Reply(Response("status", <<>>, 400, "isActive must be a boolean value", NullDoc))
        ELSE Suspend([op |-> "status", pc |-> "find", reqUser |-> gate.user._id,
                      reqRole |-> gate.user.role,
                      id |-> id, isActive |-> body.isActive])
     /\ UNCHANGED <<users, nextId, now, clock, issuedAccess, issuedRefresh, revoked, blogs, nextBlogId>>

\* user.isActive = isActive; if (!isActive) user.refreshTokens = []: the paths
\* whose value changes are the modified ones.
StatusDelta(user, isActive) ==
  Delta([p \in {q \in {"isActive", "refreshTokens"} :
                  \/ q = "isActive" /\ user.isActive # isActive
                  \/ q = "refreshTokens" /\ ~isActive /\ user.refreshTokens # {}}
           |-> IF p = "isActive" THEN isActive ELSE {}], {})

\* A handler without the guard against changing one's own status.
neverSameUser(user, reqUserId) == FALSE

\* user._id.toString() === req.user._id.toString()
sameUser(user, reqUserId) == user._id = reqUserId

StatusFind(s, db) ==
  LET rec == inflight[s]
      user == findById(rec.id)
  IN /\ resp = NoResp
     /\ rec.op = "status" /\ rec.pc = "find"
     /\ IF db = "error"
        THEN Finish(s, Response("status", <<>>, 500, "Server error while updating user status", NullDoc))
        ELSE IF user = NullDoc
        THEN Finish(s, Response("status", <<>>, 404, "User not found", NullDoc))
        ELSE IF sameUser(user, rec.reqUser)
        THEN Finish(s, Response("status", <<rec.id, rec.isActive>>, 400,
                                "You cannot change your own status", NullDoc))
        ELSE Resume(s, [op |-> "status", pc |-> "save", reqUser |-> rec.reqUser,
                        reqRole |-> rec.reqRole,
                        doc |-> Loaded(user), delta |-> StatusDelta(user, rec.isActive),
                        stale |-> FALSE])
     /\ UNCHANGED
       <<users, nextId, now, clock, issuedAccess, issuedRefresh, revoked, started, blogs, nextBlogId>>

StatusSave(s, db) ==
  LET rec == inflight[s]
  IN /\ resp = NoResp
     /\ rec.op = "status" /\ rec.pc = "save"
     /\ IF SaveFails(rec, db)
        THEN /\ Finish(s, Response("status", <<>>, 500, "Server error while updating user status", NullDoc))
             /\ UNCHANGED users
        ELSE /\ users' = Saved(rec)
             /\ inflight' = AfterSave(s, rec)
             /\ resp' = Response("status", <<>>, 200, "User status updated", toJSON(InMemory(rec)))
     /\ UNCHANGED <<nextId, now, clock, issuedAccess, issuedRefresh, revoked, started, blogs, nextBlogId>>

\* ----------------------------------------------------- PUT /api/users/:id/role
RoleBodies == {"user", "admin", "editor"}

RoleDenied(header, db) ==
  LET gate == AdminGate(header, db)
  IN /\ resp = NoResp
     /\ ~gate.next
     /\ Reply(Response("role", <<>>, gate.status, gate.message, NullDoc))
     /\ UNCHANGED <<users, nextId, now, clock, issuedAccess, issuedRefresh, revoked, blogs, nextBlogId>>

RoleStart(header, id, role) ==
  LET gate == AdminGate(header, "ok")
  IN /\ resp = NoResp
     /\ gate.next
     /\ IF role \notin {"user", "admin"}
        THEN Reply(Response("role", <<>>, 400, "Role must be either user or admin", NullDoc))
        ELSE Suspend([op |-> "role", pc |-> "find", reqUser |-> gate.user._id,
                      reqRole |-> gate.user.role,
                      id |-> id, role |-> role])
     /\ UNCHANGED <<users, nextId, now, clock, issuedAccess, issuedRefresh, revoked, blogs, nextBlogId>>

RoleDelta(user, role) == Delta([p \in {q \in {"role"} : user.role # role} |-> role], {})

RoleFind(s, db) ==
  LET rec == inflight[s]
      user == findById(rec.id)
  IN /\ resp = NoResp
     /\ rec.op = "role" /\ rec.pc = "find"
     /\ IF db = "error"
        THEN Finish(s, Response("role", <<>>, 500, "Server error while updating user role", NullDoc))
        ELSE IF user = NullDoc
        THEN Finish(s, Response("role", <<>>, 404, "User not found", NullDoc))
        ELSE IF user._id = rec.reqUser
        THEN Finish(s, Response("role", <<>>, 400, "You cannot change your own role", NullDoc))
        ELSE Resume(s, [op |-> "role", pc |-> "save", reqUser |-> rec.reqUser,
                        reqRole |-> rec.reqRole,
                        doc |-> Loaded(user), delta |-> RoleDelta(user, rec.role),
                        stale |-> FALSE])
     /\ UNCHANGED
       <<users, nextId, now, clock, issuedAccess, issuedRefresh, revoked, started, blogs, nextBlogId>>

RoleSave(s, db) ==
  LET rec == inflight[s]
  IN /\ resp = NoResp
     /\ rec.op = "role" /\ rec.pc = "save"
     /\ IF SaveFails(rec, db)
        THEN /\ Finish(s, Response("role", <<>>, 500, "Server error while updating user role", NullDoc))
             /\ UNCHANGED users
        ELSE /\ users' = Saved(rec)
             /\ inflight' = AfterSave(s, rec)
             /\ resp' = Response("role", <<>>, 200, "User role updated", toJSON(InMemory(rec)))
     /\ UNCHANGED <<nextId, now, clock, issuedAccess, issuedRefresh, revoked, started, blogs, nextBlogId>>

\* ------------------------------------------------- saving a Blog document
\* What blog.save() sends: $set of the modified paths, $push of the likes and
\* of the comments pushed.
BlogDelta(set, pushLikes, pushComments) ==
  [set |-> set, pushLikes |-> pushLikes, pushComments |-> pushComments]

\* this.likes = this.likes.filter(...) assigns the array: a versioned update.
BlogVersionWhere(delta) == "likes" \in DOMAIN delta.set

BlogVersionInc(delta) ==
  BlogVersionWhere(delta) \/ delta.pushLikes # <<>> \/ delta.pushComments > 0

\* blog.save() rejects (the document is gone, its version moved on, or the
\* store is down).
BlogSaveFails(rec, db) ==
  \/ db = "error"
  \/ rec.blog \notin DOMAIN blogs
  \/ BlogVersionWhere(rec.delta) /\ rec.stale

\* A save that adds one to a $set of views, counting the view twice.
BlogApplyDeltaDoubleView(doc, delta) ==
  [f \in DOMAIN doc |->
     IF f = "views" /\ f \in DOMAIN delta.set THEN delta.set[f] + 1
     ELSE IF f \in DOMAIN delta.set THEN delta.set[f]
     ELSE IF f = "likes" THEN doc[f] \o delta.pushLikes
     ELSE IF f = "comments" THEN doc[f] + delta.pushComments
     ELSE doc[f]]

BlogApplyDelta(doc, delta) ==
  [f \in DOMAIN doc |->
     IF f \in DOMAIN delta.set THEN delta.set[f]
     ELSE IF f = "likes" THEN doc[f] \o delta.pushLikes
     ELSE IF f = "comments" THEN doc[f] + delta.pushComments
     ELSE doc[f]]

BlogSaved(rec) == [blogs EXCEPT ![rec.blog] = BlogApplyDelta(@, rec.delta)]

\* The suspended requests after the blog save of the one in slot s.
BlogAfterSave(s, rec) ==
  [r \in Slots |->
     IF r = s THEN Idle
     ELSE IF "blog" \in DOMAIN inflight[r] /\ inflight[r].blog = rec.blog
             /\ BlogVersionInc(rec.delta)
     THEN [inflight[r] EXCEPT !.stale = TRUE]
     ELSE inflight[r]]

\* A blog handler suspends at its await.
BlogSuspend(rec) == started < MaxBlogRequests /\ Suspend(rec)

\* req.params.id of a blog route: a stored blog, or an id of no document.
BlogIds == DOMAIN blogs \cup {0}

\* The blog is not to be shown to the public.
Unpublished(blog) == ~blog.isPublished \/ blog.isDraft

\* ------------------------------------------------------- GET /api/blogs/:id
\* optionalAuth, findById with the author populated, the draft check, then
\* incrementViews unless the author is looking.
BlogGetStart(header, id, gdb, db) ==
  LET gate == optionalAuth(header, gdb)
      blog == BlogFindById(id)
      reply(status, message) == Reply(Response("blogGet", <<id>>, status, message, gate.user))
  IN /\ resp = NoResp
     /\ IF db = "error"
        THEN reply(500, "Server error while fetching blog")
        ELSE IF blog = NullBlog
        THEN reply(404, "Blog not found")
        ELSE IF blog.author \notin DOMAIN users
        THEN reply(500, "Server error while fetching blog")
        ELSE IF Unpublished(blog)
                /\ (gate.user = NullDoc
                      \/ (gate.user._id # blog.author /\ gate.user.role # "admin"))
        THEN reply(404, "Blog not found")
        ELSE IF gate.user = NullDoc \/ gate.user._id # blog.author
        THEN BlogSuspend([op |-> "blogGet", pc |-> "save", blog |-> id, reqUser |-> gate.user,
                          delta |-> BlogDelta("views" :> (blog.views + 1), <<>>, 0),
                          stale |-> FALSE])
        ELSE reply(200, "")
     /\ UNCHANGED <<users, nextId, now, clock, issuedAccess, issuedRefresh, revoked, blogs, nextBlogId>>

BlogGetSave(s, db) ==
  LET rec == inflight[s]
  IN /\ resp = NoResp
     /\ rec.op = "blogGet" /\ rec.pc = "save"
     /\ IF BlogSaveFails(rec, db)
        THEN /\ Finish(s, Response("blogGet", <<rec.blog>>, 500,
                                   "Server error while fetching blog", rec.reqUser))
             /\ UNCHANGED blogs
        ELSE /\ blogs' = BlogSaved(rec)
             /\ inflight' = BlogAfterSave(s, rec)
             /\ resp' = Response("blogGet", <<rec.blog>>, 200, "", rec.reqUser)
     /\ UNCHANGED <<users, nextId, now, clock, issuedAccess, issuedRefresh, revoked, started, nextBlogId>>

\* ------------------------------------------- the blog routes behind auth
\* router.<method>(path, auth, handler) of POST /, PUT /:id, DELETE /:id, like
\* and comments: auth answers, the handler is not run.
BlogAuthDenied(header, db) ==
  LET gate == auth(header, db)
  IN /\ resp = NoResp
     /\ ~gate.next
     /\ Reply(Response("blogDenied", header, gate.status, gate.message, NullDoc))
     /\ UNCHANGED <<users, nextId, now, clock, issuedAccess, issuedRefresh, revoked, blogs, nextBlogId>>

\* ----------------------------------------------------------- POST /api/blogs
\* publishedAt: isDraft ? null : new Date()
NoDate == -1

BlogPostStart(header, isDraft) ==
  LET gate == auth(header, "ok")
  IN /\ resp = NoResp
     /\ gate.next
     /\ nextBlogId + Cardinality({s \in Slots : inflight[s].op = "blogPost"}) <= MaxBlogs
     /\ BlogSuspend([op |-> "blogPost", pc |-> "save", reqUser |-> gate.user, isDraft |-> isDraft])
     /\ UNCHANGED <<users, nextId, now, clock, issuedAccess, issuedRefresh, revoked, blogs, nextBlogId>>

BlogPostSave(s, db) ==
  LET rec == inflight[s]
      blog == NewBlog(nextBlogId, rec.reqUser._id, rec.isDraft,
                      IF rec.isDraft THEN NoDate ELSE clock)
  IN /\ resp = NoResp
     /\ rec.op = "blogPost" /\ rec.pc = "save"
     /\ IF db = "error"
        THEN /\ Finish(s, Response("blogPost", <<>>, 500,
                                   "Server error while creating blog", rec.reqUser))
             /\ UNCHANGED <<blogs, nextBlogId>>
        ELSE /\ blogs' = [id \in DOMAIN blogs \cup {nextBlogId} |->
                            IF id = nextBlogId THEN blog ELSE blogs[id]]
             /\ nextBlogId' = nextBlogId + 1
             /\ Finish(s, Response("blogPost", <<nextBlogId>>, 201,
                                   IF rec.isDraft THEN "Blog saved as draft"
                                   ELSE "Blog published successfully", rec.reqUser))
     /\ UNCHANGED <<users, nextId, now, clock, issuedAccess, issuedRefresh, revoked, started>>

\* -------------------------------------------------------- PUT /api/blogs/:id
\* req.body.isDraft and req.body.featured: undefined, or a boolean.
BodyValues == {"undefined", "true", "false"}

PutBodies == [isDraft : BodyValues, featured : BodyValues]

\* The bodies that leave featured out.
DraftBodies == {body \in PutBodies : body.featured = "undefined"}

\* blog.featured = featured whoever sends it.
BlogPutDeltaAnyRole(blog, body, user) ==
  LET isDraft == (body.isDraft = "true")
      draft == IF body.isDraft = "undefined" THEN <<>>
               ELSE IF ~isDraft /\ blog.publishedAt = NoDate
               THEN [isDraft |-> isDraft, isPublished |-> ~isDraft, publishedAt |-> clock]
               ELSE [isDraft |-> isDraft, isPublished |-> ~isDraft]
      want == IF body.featured # "undefined"
              THEN [featured |-> (body.featured = "true")] @@ draft
              ELSE draft
  IN BlogDelta([p \in {q \in DOMAIN want : blog[q] # want[q]} |-> want[p]], <<>>, 0)

\* blog.isDraft = isDraft; blog.isPublished = !isDraft; publishedAt is set on
\* the first publication; blog.featured = featured for an admin only.  The
\* paths whose value changes are the modified ones.
BlogPutDelta(blog, body, user) ==
  LET isDraft == (body.isDraft = "true")
      draft == IF body.isDraft = "undefined" THEN <<>>
               ELSE IF ~isDraft /\ blog.publishedAt = NoDate
               THEN [isDraft |-> isDraft, isPublished |-> ~isDraft, publishedAt |-> clock]
               ELSE [isDraft |-> isDraft, isPublished |-> ~isDraft]
      want == IF body.featured # "undefined" /\ user.role = "admin"
              THEN [featured |-> (body.featured = "true")] @@ draft
              ELSE draft
  IN BlogDelta([p \in {q \in DOMAIN want : blog[q] # want[q]} |-> want[p]], <<>>, 0)

BlogPutStart(header, id, body, db) ==
  LET gate == auth(header, "ok")
      blog == BlogFindById(id)
      reply(status, message) == Reply(Response("blogPut", <<id>>, status, message, gate.user))
  IN /\ resp = NoResp
     /\ gate.next
     /\ IF db = "error"
        THEN reply(500, "Server error while updating blog")
        ELSE IF blog = NullBlog
        THEN reply(404, "Blog not found")
        ELSE IF blog.author # gate.user._id /\ gate.user.role # "admin"
        THEN reply(403, "Not authorized to update this blog")
        ELSE BlogSuspend([op |-> "blogPut", pc |-> "save", blog |-> id, reqUser |-> gate.user,
                          body |-> body, delta |-> BlogPutDelta(blog, body, gate.user),
                          stale |-> FALSE])
     /\ UNCHANGED <<users, nextId, now, clock, issuedAccess, issuedRefresh, revoked, blogs, nextBlogId>>

BlogPutSave(s, db) ==
  LET rec == inflight[s]
  IN /\ resp = NoResp
     /\ rec.op = "blogPut" /\ rec.pc = "save"
     /\ IF BlogSaveFails(rec, db)
        THEN /\ Finish(s, Response("blogPut", <<rec.blog>>, 500,
                                   "Server error while updating blog", rec.reqUser))
             /\ UNCHANGED blogs
        ELSE /\ blogs' = BlogSaved(rec)
             /\ inflight' = BlogAfterSave(s, rec)
             /\ resp' = Response("blogPut", <<rec.blog, rec.body>>, 200,
                                 "Blog updated successfully", rec.reqUser)
     /\ UNCHANGED <<users, nextId, now, clock, issuedAccess, issuedRefresh, revoked, started, nextBlogId>>

\* ----------------------------------------------------- DELETE /api/blogs/:id
BlogDeleteStart(header, id, db) ==
  LET gate == auth(header, "ok")
      blog == BlogFindById(id)
      reply(status, message) == Reply(Response("blogDelete", <<id>>, status, message, gate.user))
  IN /\ resp = NoResp
     /\ gate.next
     /\ IF db = "error"
        THEN reply(500, "Server error while deleting blog")
        ELSE IF blog = NullBlog
        THEN reply(404, "Blog not found")
        ELSE IF blog.author # gate.user._id /\ gate.user.role # "admin"
        THEN reply(403, "Not authorized to delete this blog")
        ELSE BlogSuspend([op |-> "blogDelete", pc |-> "delete", blog |-> id,
                          reqUser |-> gate.user, stale |-> FALSE])
     /\ UNCHANGED <<users, nextId, now, clock, issuedAccess, issuedRefresh, revoked, blogs, nextBlogId>>

\* Blog.findByIdAndDelete(req.params.id): no error when the blog is gone already.
BlogDeleteDo(s, db) ==
  LET rec == inflight[s]
  IN /\ resp = NoResp
     /\ rec.op = "blogDelete" /\ rec.pc = "delete"
     /\ IF db = "error"
        THEN /\ Finish(s, Response("blogDelete", <<rec.blog>>, 500,
                                   "Server error while deleting blog", rec.reqUser))
             /\ UNCHANGED blogs
        ELSE /\ blogs' = [id \in DOMAIN blogs \ {rec.blog} |-> blogs[id]]
             /\ Finish(s, Response("blogDelete", <<rec.blog>>, 200,
                                   "Blog deleted successfully", rec.reqUser))
     /\ UNCHANGED <<users, nextId, now, clock, issuedAccess, issuedRefresh, revoked, started, nextBlogId>>

\* -------------------------------------------------- POST /api/blogs/:id/like
\* likes.find(like => like.user === userId)
Liked(likes, userId) == \E i \in 1..Len(likes) : likes[i] = userId

\* removeLike's filter, and addLike's push (it looks for the like again first).
removeLike(likes, userId) == SelectSeq(likes, LAMBDA user : user # userId)

BlogLikeDelta(blog, userId) ==
  IF Liked(blog.likes, userId)
  THEN BlogDelta("likes" :> removeLike(blog.likes, userId), <<>>, 0)
  ELSE BlogDelta(<<>>, <<userId>>, 0)

BlogLikeStart(header, id, db) ==
  LET gate == auth(header, "ok")
      blog == BlogFindById(id)
      reply(status, message) == Reply(Response("blogLike", <<id>>, status, message, gate.user))
  IN /\ resp = NoResp
     /\ gate.next
     /\ IF db = "error"
        THEN reply(500, "Server error while processing like")
        ELSE IF blog = NullBlog
        THEN reply(404, "Blog not found")
        ELSE IF Unpublished(blog)
        THEN reply(404, "Blog not found")
        ELSE BlogSuspend([op |-> "blogLike", pc |-> "save", blog |-> id, reqUser |-> gate.user,
                          liked |-> ~Liked(blog.likes, gate.user._id),
                          delta |-> BlogLikeDelta(blog, gate.user._id), stale |-> FALSE])
     /\ UNCHANGED <<users, nextId, now, clock, issuedAccess, issuedRefresh, revoked, blogs, nextBlogId>>

BlogLikeSave(s, db) ==
  LET rec == inflight[s]
  IN /\ resp = NoResp
     /\ rec.op = "blogLike" /\ rec.pc = "save"
     /\ IF BlogSaveFails(rec, db)
        THEN /\ Finish(s, Response("blogLike", <<rec.blog>>, 500,
                                   "Server error while processing like", rec.reqUser))
             /\ UNCHANGED blogs
        ELSE /\ blogs' = BlogSaved(rec)
             /\ inflight' = BlogAfterSave(s, rec)
             /\ resp' = Response("blogLike", <<rec.blog>>, 200,
                                 IF rec.liked THEN "Blog liked" ELSE "Blog unliked", rec.reqUser)
     /\ UNCHANGED <<users, nextId, now, clock, issuedAccess, issuedRefresh, revoked, started, nextBlogId>>

\* ---------------------------------------------- POST /api/blogs/:id/comments
BlogCommentStart(header, id, db) ==
  LET gate == auth(header, "ok")
      blog == BlogFindById(id)
      reply(status, message) == Reply(Response("blogComment", <<id>>, status, message, gate.user))
  IN /\ resp = NoResp
     /\ gate.next
     /\ IF db = "error"
        THEN reply(500, "Server error while adding comment")
        ELSE IF blog = NullBlog
        THEN reply(404, "Blog not found")
        ELSE IF Unpublished(blog)
        THEN reply(404, "Blog not found")
        ELSE BlogSuspend([op |-> "blogComment", pc |-> "save", blog |-> id, reqUser |-> gate.user,
                          delta |-> BlogDelta(<<>>, <<>>, 1), stale |-> FALSE])
     /\ UNCHANGED <<users, nextId, now, clock, issuedAccess, issuedRefresh, revoked, blogs, nextBlogId>>

BlogCommentSave(s, db) ==
  LET rec == inflight[s]
  IN /\ resp = NoResp
     /\ rec.op = "blogComment" /\ rec.pc = "save"
     /\ IF BlogSaveFails(rec, db)
        THEN /\ Finish(s, Response("blogComment", <<rec.blog>>, 500,
                                   "Server error while adding comment", rec.reqUser))
             /\ UNCHANGED blogs
        ELSE /\ blogs' = BlogSaved(rec)
             /\ inflight' = BlogAfterSave(s, rec)
             /\ resp' = Response("blogComment", <<rec.blog>>, 201,
                                 "Comment added successfully (pending approval)", rec.reqUser)
     /\ UNCHANGED <<users, nextId, now, clock, issuedAccess, issuedRefresh, revoked, started, nextBlogId>>

\* ------------------------------------------------------- scripts/seedDatabase
\* User.deleteMany({}), then the admin and the regular users, with new ids.
SeedDatabase ==
  /\ resp = NoResp
  /\ nextId + SeedUsers <= (1 + SeedUsers) * (1 + MaxSeedRuns)
  /\ started < MaxRequests
  /\ users' = SeededUsers(nextId)
  /\ nextId' = nextId + 1 + SeedUsers
  /\ \E authors \in SeededBlogs(nextBlogId, nextId) : blogs' = SeedBlogDocs(authors)
  /\ nextBlogId' = nextBlogId + SeedBlogs
  /\ started' = started + 1
  /\ UNCHANGED <<now, clock, issuedAccess, issuedRefresh, inflight, resp, revoked>>

\* The seeded addresses and one that no document has.
UnknownEmail == UserEmail(SeedUsers + 1)
Emails == {AdminEmail, UnknownEmail} \cup {UserEmail(i) : i \in 1..SeedUsers}
Passwords == {AdminPassword, UserPassword}

Next ==
  \/ Deliver
  \/ Tick
  \/ SeedDatabase
  \/ \E header \in Headers, db \in DbAnswers : Dashboard(header, db)
  \/ \E body \in Bodies, db \in DbAnswers : Refresh(body, db)
  \/ \E email \in Emails, password \in Passwords, db \in DbAnswers : LoginStart(email, password, db)
  \/ \E s \in Slots, db \in DbAnswers : LoginSaveLastLogin(s, db)
  \/ \E s \in Slots, db \in DbAnswers : LoginSaveTokens(s, db)
  \/ \E header \in Headers, db \in DbAnswers : LogoutDenied(header, db)
  \/ \E header \in Headers, body \in Bodies : LogoutStart(header, body)
  \/ \E s \in Slots, db \in DbAnswers : LogoutFind(s, db)
  \/ \E s \in Slots, db \in DbAnswers : LogoutSave(s, db)
  \/ \E header \in Headers, db \in DbAnswers : StatusDenied(header, db)
  \/ \E header \in Headers, id \in TargetIds, body \in StatusBodies : StatusStart(header, id, body)
  \/ \E s \in Slots, db \in DbAnswers : StatusFind(s, db)
  \/ \E s \in Slots, db \in DbAnswers : StatusSave(s, db)
  \/ \E header \in Headers, db \in DbAnswers : RoleDenied(header, db)
  \/ \E header \in Headers, id \in TargetIds, role \in RoleBodies : RoleStart(header, id, role)
  \/ \E s \in Slots, db \in DbAnswers : RoleFind(s, db)
  \/ \E s \in Slots, db \in DbAnswers : RoleSave(s, db)

Spec == Init /\ [][Next]_vars

\* ------------------------------------------------------------ the blog routes
\* The seeded database after every seeded user has logged in, in second 0.
LoggedIn(doc) ==
  [doc EXCEPT !.refreshTokens = {RefreshEntry(generateRefreshToken(doc))}]

BlogInit ==
  /\ now = 0
  /\ clock = 0
  /\ users = [id \in DOMAIN SeededUsers(1) |-> LoggedIn(SeededUsers(1)[id])]
  /\ nextId = 2 + SeedUsers
  /\ issuedAccess = {generateAuthToken(users[id]) : id \in DOMAIN users}
  /\ issuedRefresh = {generateRefreshToken(users[id]) : id \in DOMAIN users}
  /\ inflight = [s \in Slots |-> Idle]
  /\ resp = NoResp
  /\ revoked = {}
  /\ started = 0
  /\ \E authors \in SeededBlogs(1, 1) : blogs = SeedBlogDocs(authors)
  /\ nextBlogId = 1 + SeedBlogs

\* The blog routes, with the handler of the admin's status route and the seed
\* script.
BlogNext ==
  \/ Deliver
  \/ Tick
  \/ SeedDatabase
  \/ \E header \in Headers, id \in TargetIds, body \in StatusBodies : StatusStart(header, id, body)
  \/ \E s \in Slots, db \in DbAnswers : StatusFind(s, db)
  \/ \E s \in Slots, db \in DbAnswers : StatusSave(s, db)
  \/ \E header \in Headers, id \in BlogIds, gdb \in DbAnswers, db \in DbAnswers :
       BlogGetStart(header, id, gdb, db)
  \/ \E s \in Slots, db \in DbAnswers : BlogGetSave(s, db)
  \/ \E header \in Headers, db \in DbAnswers : BlogAuthDenied(header, db)
  \/ \E header \in Headers, isDraft \in BOOLEAN : BlogPostStart(header, isDraft)
  \/ \E s \in Slots, db \in DbAnswers : BlogPostSave(s, db)
  \/ \E header \in Headers, id \in BlogIds, body \in DraftBodies, db \in DbAnswers :
       BlogPutStart(header, id, body, db)
  \/ \E s \in Slots, db \in DbAnswers : BlogPutSave(s, db)
  \/ \E header \in Headers, id \in BlogIds, db \in DbAnswers : BlogDeleteStart(header, id, db)
  \/ \E s \in Slots, db \in DbAnswers : BlogDeleteDo(s, db)
  \/ \E header \in Headers, id \in BlogIds, db \in DbAnswers : BlogLikeStart(header, id, db)
  \/ \E s \in Slots, db \in DbAnswers : BlogLikeSave(s, db)
  \/ \E header \in Headers, id \in BlogIds, db \in DbAnswers : BlogCommentStart(header, id, db)
  \/ \E s \in Slots, db \in DbAnswers : BlogCommentSave(s, db)

BlogSpec == BlogInit /\ [][BlogNext]_vars

\* ----------------------------------------------------------- the admin routes
\* The two admin routes on the seeded database with every seeded user logged in.
AdminNext ==
  \/ Deliver
  \/ Tick
  \/ \E header \in Headers, db \in DbAnswers : StatusDenied(header, db)
  \/ \E header \in Headers, id \in TargetIds, body \in StatusBodies : StatusStart(header, id, body)
  \/ \E s \in Slots, db \in DbAnswers : StatusFind(s, db)
  \/ \E s \in Slots, db \in DbAnswers : StatusSave(s, db)
  \/ \E header \in Headers, db \in DbAnswers : RoleDenied(header, db)
  \/ \E header \in Headers, id \in TargetIds, role \in RoleBodies : RoleStart(header, id, role)
  \/ \E s \in Slots, db \in DbAnswers : RoleFind(s, db)
  \/ \E s \in Slots, db \in DbAnswers : RoleSave(s, db)

AdminSpec == BlogInit /\ [][AdminNext]_vars

\* -------------------------------------------------- drafts and publication
\* The seeded database with every seeded user logged in, after the admin has
\* saved one draft through POST /api/blogs.
DraftInit ==
  /\ now = 0
  /\ clock = 0
  /\ users = [id \in DOMAIN SeededUsers(1) |-> LoggedIn(SeededUsers(1)[id])]
  /\ nextId = 2 + SeedUsers
  /\ issuedAccess = {generateAuthToken(users[id]) : id \in DOMAIN users}
  /\ issuedRefresh = {generateRefreshToken(users[id]) : id \in DOMAIN users}
  /\ inflight = [s \in Slots |-> Idle]
  /\ resp = NoResp
  /\ revoked = {}
  /\ started = 0
  /\ \E authors \in SeededBlogs(1, 1) :
       blogs = [id \in 1..(SeedBlogs + 1) |->
                  IF id <= SeedBlogs THEN SeedBlogDocs(authors)[id]
                  ELSE NewBlog(id, 1, TRUE, NoDate)]
  /\ nextBlogId = 2 + SeedBlogs

PublishNext ==
  \/ Deliver
  \/ ClockTick
  \/ \E header \in Headers, isDraft \in BOOLEAN : BlogPostStart(header, isDraft)
  \/ \E s \in Slots, db \in DbAnswers : BlogPostSave(s, db)
  \/ \E header \in Headers, id \in BlogIds, body \in PutBodies, db \in DbAnswers :
       BlogPutStart(header, id, body, db)
  \/ \E s \in Slots, db \in DbAnswers : BlogPutSave(s, db)
  \/ \E header \in Headers, id \in BlogIds, db \in DbAnswers : BlogDeleteStart(header, id, db)
  \/ \E s \in Slots, db \in DbAnswers : BlogDeleteDo(s, db)

PublishSpec == DraftInit /\ [][PublishNext]_vars

\* ------------------------------------------------------------ the properties
\* The tokens in circulation: those clients hold and those a login still in
\* flight has signed.
AccessTokens ==
  issuedAccess \cup {inflight[s].token : s \in {r \in Slots : "token" \in DOMAIN inflight[r]}}

RefreshTokens ==
  issuedRefresh \cup {inflight[s].refreshToken :
                        s \in {r \in Slots : inflight[r].op = "login" /\ "refreshToken" \in DOMAIN inflight[r]}}

\* The gate answered with this status and message, called no handler and
\* attached no user.
Rejects(gate, status, message) ==
  /\ gate.status = status
  /\ gate.message = message
  /\ ~gate.next
  /\ gate.user = NullDoc

\* Whether the stored document id holds token in its refreshTokens.
Stored(id, token) ==
  id \in DOMAIN users /\ \E tokenObj \in users[id].refreshTokens : tokenObj.token = token

\* C1, as stated: verifyRefreshToken never attaches an inactive user; whenever
\* it lets a request through, the user it attached is active.
C1_InactiveNeverAttached ==
  \A body \in Bodies :
    LET gate == verifyRefreshToken(body, "ok")
    IN gate.next => gate.user.isActive

\* C2, as stated: a refresh token whose removal a logout has saved is never
\* accepted by verifyRefreshToken again.
C2_RevokedNeverAccepted ==
  \A t \in revoked : ~verifyRefreshToken(<<t>>, "ok").next

\* C3, as stated: once generateRefreshToken has returned, the token is in the
\* stored refresh-token set of the user.
C3_StoredOnReturn ==
  \A s \in Slots :
    (inflight[s].op = "login" /\ inflight[s].pc = "saveTokens"
       /\ inflight[s].doc._id \in DOMAIN users)
      => Stored(inflight[s].doc._id, inflight[s].refreshToken)

\* C3, amended: generateRefreshToken signs {id} with the refresh secret and
\* appends the token with its creation time to the loaded document only; once
\* the caller's save has gone through (the login answers 200) the token is in
\* the stored set, and verifyRefreshToken accepts it until it expires.
C3_StoredByCallerSave ==
  /\ \A s \in Slots :
       (inflight[s].op = "login" /\ inflight[s].pc = "saveTokens")
         => LET rec == inflight[s]
            IN /\ rec.refreshToken.key = RefreshSecret
               /\ rec.refreshToken.payload = [id |-> rec.doc._id]
               /\ rec.refreshToken.exp = rec.refreshToken.iat + RefreshTTL
               /\ rec.delta.push = {[token |-> rec.refreshToken,
                                     createdAt |-> rec.refreshToken.iat]}
  /\ (resp.route = "login" /\ resp.status = 200)
       => LET gate == verifyRefreshToken(resp.input, "ok")
          IN /\ Stored(resp.user._id, resp.input[1])
             /\ jwtVerify(resp.input[1], RefreshSecret) = "ok"
                  => gate.next /\ gate.user._id = resp.user._id
                       /\ gate.refreshToken = resp.input

C3_Witness ==
  /\ resp.route = "login" /\ resp.status = 200
  /\ verifyRefreshToken(resp.input, "ok").next

\* C4, as stated: a refresh request without a token is answered 400.
C4_AbsentIsBadRequest ==
  (resp.route = "refresh" /\ resp.input = <<>>) => resp.status = 400

\* C4, amended: a refresh request without a token is answered 401 'Refresh
\* token is required'; no user is looked up, nothing is attached and the
\* handler is not called.
C4_AbsentIsUnauthorized ==
  /\ \A db \in DbAnswers :
       LET gate == verifyRefreshToken(<<>>, db)
       IN /\ Rejects(gate, 401, "Refresh token is required")
          /\ ~gate.lookup
          /\ gate.refreshToken = <<>>
  /\ (resp.route = "refresh" /\ resp.input = <<>>)
       => /\ resp.status = 401
          /\ resp.message = "Refresh token is required"
          /\ ~resp.next
          /\ resp.user = NullDoc

C4_Witness == resp.route = "refresh" /\ resp.input = <<>> /\ resp.status = 401

\* C5: an unexpired access token of a stored user is accepted by auth while
\* the user is active, and answered 401 'User account is deactivated' with no
\* user attached in every state in which the user's isActive is false.
C5_DeactivationTakesEffect ==
  \A t \in AccessTokens :
    LET id == t.payload.id
        gate == auth(<<"Bearer", t>>, "ok")
    IN (jwtVerify(t, JWT_SECRET) = "ok" /\ id \in DOMAIN users)
         => IF users[id].isActive
            THEN gate.next /\ gate.user._id = id
            ELSE Rejects(gate, 401, "User account is deactivated")

C5_Witness ==
  /\ resp.route = "dashboard"
  /\ resp.message = "User account is deactivated"
  /\ resp.input[2] \in issuedAccess

\* C6: a refresh token presented as a bearer token is answered 401 'Invalid
\* token' by auth, and an access token presented to verifyRefreshToken is
\* answered 401 'Invalid or expired refresh token', whatever the store holds.
C6_NoCrossUse ==
  /\ \A t \in RefreshTokens \cup {generateRefreshToken(users[id]) : id \in DOMAIN users},
        db \in DbAnswers :
       Rejects(auth(<<"Bearer", t>>, db), 401, "Invalid token")
  /\ \A t \in AccessTokens \cup {generateAuthToken(users[id]) : id \in DOMAIN users},
        db \in DbAnswers :
       Rejects(verifyRefreshToken(<<t>>, db), 401, "Invalid or expired refresh token")

C6_Witness ==
  /\ resp.route = "refresh"
  /\ resp.input # <<>>
  /\ resp.input[1] \in issuedAccess
  /\ resp.message = "Invalid or expired refresh token"

\* C7: the token generateAuthToken signs for an active user makes auth call
\* the handler with that user's id, email and role attached, at once and at
\* any time before the token expires while the user is active and unmodified.
C7_RoundTrip ==
  /\ \A id \in DOMAIN users :
       users[id].isActive
         => LET gate == auth(<<"Bearer", generateAuthToken(users[id])>>, "ok")
            IN /\ gate.next
               /\ gate.user._id = id
               /\ gate.user.email = users[id].email
               /\ gate.user.role = users[id].role
  /\ \A t \in AccessTokens :
       LET id == t.payload.id
           gate == auth(<<"Bearer", t>>, "ok")
       IN (/\ jwtVerify(t, JWT_SECRET) = "ok"
           /\ id \in DOMAIN users
           /\ users[id].isActive
           /\ users[id].email = t.payload.email
           /\ users[id].role = t.payload.role)
            => /\ gate.next
               /\ gate.user._id = t.payload.id
               /\ gate.user.email = t.payload.email
               /\ gate.user.role = t.payload.role
  /\ (resp.route = "dashboard" /\ resp.next)
       => resp.user = SelectPublic(users[resp.input[2].payload.id])

C7_Witness ==
  /\ resp.route = "dashboard"
  /\ resp.next
  /\ resp.input[2] \in issuedAccess
  /\ resp.user.role = "user"
  /\ resp.user.role = resp.input[2].payload.role

\* C8: auth answers a correctly signed token whose expiry has passed with 401
\* 'Token expired', and a token whose signature does not verify with 401
\* 'Invalid token'; either way before any lookup, with no user attached and
\* the handler not called.
C8_ExpiredIsNotInvalid ==
  /\ \A header \in Headers, db \in DbAnswers :
       (Len(header) = 2 /\ header[1] = "Bearer")
         => LET token == header[2]
                gate == auth(header, db)
            IN /\ (token.key = JWT_SECRET /\ now >= token.exp)
                    => Rejects(gate, 401, "Token expired") /\ ~gate.lookup
               /\ token.key # JWT_SECRET
                    => Rejects(gate, 401, "Invalid token") /\ ~gate.lookup
  /\ (resp.route = "dashboard" /\ resp.message \in {"Token expired", "Invalid token"})
       => resp.status = 401 /\ ~resp.next /\ resp.user = NullDoc

C8_Witness ==
  /\ resp.route = "dashboard"
  /\ resp.message = "Token expired"
  /\ resp.input[2] \in issuedAccess

\* C9: auth answers 401 'No token provided, authorization denied' when the
\* Authorization header is absent, does not start with 'Bearer ' or has
\* nothing after the prefix; no user is looked up or attached and no handler
\* of a protected route is called.
C9_NoTokenProvided ==
  /\ \A header \in Headers, db \in DbAnswers :
       (header = <<>> \/ header[1] # "Bearer" \/ Len(header) = 1)
         => /\ Rejects(auth(header, db), 401, "No token provided, authorization denied")
            /\ ~auth(header, db).lookup
            /\ Rejects(AdminGate(header, db), 401, "No token provided, authorization denied")
  /\ (resp.route = "dashboard"
        /\ (resp.input = <<>> \/ resp.input[1] # "Bearer" \/ Len(resp.input) = 1))
       => resp.status = 401 /\ ~resp.next /\ resp.user = NullDoc

C9_Witness ==
  /\ resp.route = "dashboard"
  /\ resp.input = <<"Bearer">>
  /\ resp.message = "No token provided, authorization denied"

\* C10: a token that verifies but whose id matches no stored user is answered
\* 401 'Token is not valid - user not found' by auth and 401 'Invalid refresh
\* token - user not found' by verifyRefreshToken; a token of such a user that
\* does not verify is answered with the verification error, before any lookup.
C10_UserNotFound ==
  /\ \A t \in AccessTokens :
       t.payload.id \notin DOMAIN users
         => LET gate == auth(<<"Bearer", t>>, "ok")
            IN IF jwtVerify(t, JWT_SECRET) = "ok"
               THEN Rejects(gate, 401, "Token is not valid - user not found") /\ gate.lookup
               ELSE Rejects(gate, 401, "Token expired") /\ ~gate.lookup
  /\ \A t \in RefreshTokens :
       t.payload.id \notin DOMAIN users
         => LET gate == verifyRefreshToken(<<t>>, "ok")
            IN IF jwtVerify(t, RefreshSecret) = "ok"
               THEN Rejects(gate, 401, "Invalid refresh token - user not found") /\ gate.lookup
               ELSE Rejects(gate, 401, "Invalid or expired refresh token") /\ ~gate.lookup

C10_Witness ==
  /\ resp.route = "dashboard"
  /\ resp.message = "Token is not valid - user not found"
  /\ resp.input[2] \in issuedAccess

\* C11: verifyRefreshToken answers 401 'Invalid or expired refresh token',
\* before any lookup, to every token that fails jwt.verify against the refresh
\* secret; a refresh token whose expiry has passed is answered so although
\* its string is still in the stored refreshTokens of its user.
C11_ExpiredRefreshRejected ==
  /\ \A body \in Bodies \ {<<>>}, db \in DbAnswers :
       jwtVerify(body[1], RefreshSecret) # "ok"
         => LET gate == verifyRefreshToken(body, db)
            IN Rejects(gate, 401, "Invalid or expired refresh token") /\ ~gate.lookup
  /\ \A id \in DOMAIN users : \A tokenObj \in users[id].refreshTokens :
       now >= tokenObj.token.exp
         => Rejects(verifyRefreshToken(<<tokenObj.token>>, "ok"), 401,
                    "Invalid or expired refresh token")
  /\ (resp.route = "refresh" /\ resp.input # <<>>
        /\ jwtVerify(resp.input[1], RefreshSecret) # "ok")
       => resp.status = 401 /\ ~resp.next /\ resp.user = NullDoc

C11_Witness ==
  /\ resp.route = "refresh"
  /\ resp.message = "Invalid or expired refresh token"
  /\ resp.input # <<>>
  /\ resp.input[1].key = RefreshSecret
  /\ Stored(resp.input[1].payload.id, resp.input[1])

\* C12: verifyRefreshToken lets every unexpired refresh token that is in the
\* stored set of its user through, attaching the stored user and the token
\* string; in the state a successful refresh leaves behind the token is still
\* stored and the attached user is the stored document, so the same token is
\* accepted again.
C12_NoRotation ==
  /\ \A t \in RefreshTokens :
       (jwtVerify(t, RefreshSecret) = "ok" /\ Stored(t.payload.id, t))
         => LET gate == verifyRefreshToken(<<t>>, "ok")
            IN /\ gate.next
               /\ gate.user = users[t.payload.id]
               /\ gate.refreshToken = <<t>>
  /\ (resp.route = "refresh" /\ resp.next)
       => /\ Stored(resp.user._id, resp.input[1])
          /\ resp.user = users[resp.user._id]
          /\ verifyRefreshToken(resp.input, "ok").next
          /\ verifyRefreshToken(resp.input, "ok").refreshToken = resp.input

C12_Witness ==
  /\ resp.route = "refresh"
  /\ resp.next
  /\ resp.input[1] \in issuedRefresh
  /\ verifyRefreshToken(resp.input, "ok").next

\* C13: optionalAuth sends no response and calls the handler exactly once for
\* every header and every answer of the store; it attaches the stored user
\* (without password and refreshTokens) when the bearer token verifies and the
\* user is found and active, and nothing in every other case; GET /api/blogs/:id
\* is always answered by its handler.
C13_OptionalAuthNeverBlocks ==
  /\ \A header \in Headers, db \in DbAnswers :
       LET gate == optionalAuth(header, db)
           resolves == /\ Len(header) = 2 /\ header[1] = "Bearer"
                       /\ jwtVerify(header[2], JWT_SECRET) = "ok"
                       /\ db = "ok"
                       /\ header[2].payload.id \in DOMAIN users
                       /\ users[header[2].payload.id].isActive
       IN /\ gate.next /\ gate.nexts = 1 /\ gate.status = 0
          /\ IF resolves
             THEN gate.user = SelectPublic(users[header[2].payload.id])
             ELSE gate.user = NullDoc
  /\ resp.route = "blogGet" => resp.status \in {200, 404, 500}

C13_Witness ==
  /\ resp.route = "blogGet"
  /\ resp.status = 200
  /\ resp.user = NullDoc
  /\ \A t \in issuedAccess :
       /\ t.payload.id \in DOMAIN users
       /\ ~users[t.payload.id].isActive \/ users[t.payload.id].role = "admin"
       /\ optionalAuth(<<"Bearer", t>>, "ok").user = NullDoc
            \/ users[t.payload.id].role = "admin"
  /\ \E t \in issuedAccess : ~users[t.payload.id].isActive
\* C14: adminAuth calls next() only for an attached user whose role is "admin"
\* and answers 403 otherwise; the two gates of an admin route let through only
\* an access token of an active admin, and every request that is inside the
\* status or role handler was let in with the role "admin".
C14_AdminOnly ==
  /\ \A id \in DOMAIN users, role \in {"user", "admin"} :
       LET reqUser == SelectPublic([users[id] EXCEPT !.role = role])
           gate == adminAuth(reqUser)
       IN IF role = "admin"
          THEN gate.next /\ gate.user = reqUser
          ELSE Rejects(gate, 403, "Access denied. Admin privileges required.")
  /\ Rejects(adminAuth(NullDoc), 403, "Access denied. Admin privileges required.")
  /\ \A header \in Headers, db \in DbAnswers :
       LET first == auth(header, db)
           gate == AdminGate(header, db)
       IN /\ gate.next => first.next /\ first.user.role = "admin" /\ gate.user = first.user
          /\ first.next /\ first.user.role # "admin"
               => Rejects(gate, 403, "Access denied. Admin privileges required.")
          /\ ~first.next => gate = first
  /\ \A s \in Slots : inflight[s].op \in {"status", "role"} => inflight[s].reqRole = "admin"
  /\ resp.route \in {"status", "role"} /\ resp.status = 403
       => resp.message = "Access denied. Admin privileges required."

\* A regular user holds a verifying access token and is turned away by the
\* admin gate while an admin's request is inside the status handler.
C14_Witness ==
  /\ \E token \in issuedAccess :
       /\ auth(<<"Bearer", token>>, "ok").next
       /\ auth(<<"Bearer", token>>, "ok").user.role = "user"
       /\ AdminGate(<<"Bearer", token>>, "ok").status = 403
  /\ \E s \in Slots : inflight[s].op = "status" /\ inflight[s].pc = "save"

\* C15: findByCredentials finds the user for every stored active email presented
\* with the plaintext its hash was made from, and throws one and the same
\* 'Invalid login credentials' when no document has the email, when the
\* document is inactive and when the password does not match; the login route
\* answers 401 with that one message.
C15_GenericCredentialError ==
  /\ \A email \in Emails, password \in Passwords :
       LET stored == {id \in DOMAIN users : users[id].email = email}
           valid == \E id \in stored :
                      users[id].isActive /\ users[id].password = bcryptHash(password)
       IN /\ valid => findByCredentials(email, password) = "found"
          /\ stored = {} => findByCredentials(email, password) = "Invalid login credentials"
          /\ (\E id \in stored : ~users[id].isActive)
               => findByCredentials(email, password) = "Invalid login credentials"
          /\ (\E id \in stored : users[id].password # bcryptHash(password))
               => findByCredentials(email, password) = "Invalid login credentials"
  /\ resp.route = "login" /\ resp.status = 401 => resp.message = "Invalid login credentials"

\* A login with the right password of a deactivated user has just been answered
\* 401, while the store also shows the other two failing cases and a success.
C15_Witness ==
  /\ resp.route = "login" /\ resp.status = 401
  /\ \E id \in DOMAIN users :
       /\ ~users[id].isActive
       /\ resp.input = <<users[id].email>>
       /\ users[id].password = bcryptHash(UserPassword)
       /\ findByCredentials(users[id].email, UserPassword) = "Invalid login credentials"
  /\ findByCredentials(UnknownEmail, UserPassword) = "Invalid login credentials"
  /\ findByCredentials(AdminEmail, UserPassword) = "Invalid login credentials"
  /\ findByCredentials(AdminEmail, AdminPassword) = "found"

\* The plaintext the seed script gave the account with this email.
SeededPassword(email) == IF email = AdminEmail THEN AdminPassword ELSE UserPassword

\* C16: the saves of login, logout, status and role changes leave the password
\* path unmodified, so every stored hash is still the one made from the seeded
\* plaintext: comparePassword accepts that plaintext, and findByCredentials
\* finds the user while the account is active.
C16_HashOnlyWhenModified ==
  \A id \in DOMAIN users :
    /\ users[id].password = bcryptHash(SeededPassword(users[id].email))
    /\ comparePassword(users[id], SeededPassword(users[id].email))
    /\ users[id].isActive
         => findByCredentials(users[id].email, SeededPassword(users[id].email)) = "found"

\* Saves have changed lastLogin and refreshTokens of one user and isActive and
\* role of another.
C16_Witness ==
  /\ \E id \in DOMAIN users : users[id].refreshTokens # {} /\ users[id].lastLogin = 1
  /\ \E id \in DOMAIN users :
       users[id].email # AdminEmail /\ ~users[id].isActive /\ users[id].role = "admin"

\* The step in which the login suspended in slot s saves its refresh token and
\* answers 200.
LoginSaved(s) ==
  /\ inflight[s].op = "login" /\ inflight[s].pc = "saveTokens"
  /\ resp = NoResp
  /\ resp'.route = "login" /\ resp'.status = 200
  /\ resp'.input = <<inflight[s].refreshToken>>
  /\ inflight'[s] = Idle

OnlyRefreshTokensChange ==
  /\ now' = now
  /\ users' # users
  /\ DOMAIN users' = DOMAIN users
  /\ \A id \in DOMAIN users :
       [users'[id] EXCEPT !.refreshTokens = {}] = [users[id] EXCEPT !.refreshTokens = {}]

\* C18: across two store states that differ only in refreshTokens (a login
\* stored a token, a logout removed one), auth gives every Authorization
\* header the same outcome and the same req.user; req.user never carries the
\* refreshTokens.
C18_AuthIgnoresRefreshTokens ==
  [][/\ OnlyRefreshTokensChange
          => \A header \in Headers \cup Headers', db \in DbAnswers :
               auth(header, db)' = auth(header, db)
     /\ \A header \in Headers :
          auth(header, "ok").next => "refreshTokens" \notin DOMAIN auth(header, "ok").user]_vars

\* A logout has just removed the user's last refresh token, and the user's
\* access token still passes auth.
C18_Witness ==
  /\ resp.route = "logout" /\ resp.status = 200
  /\ resp.input # <<>> /\ resp.input[1] \in revoked
  /\ resp.user._id \in DOMAIN users
  /\ users[resp.user._id].refreshTokens = {}
  /\ \E token \in issuedAccess :
       /\ token.payload.id = resp.user._id
       /\ auth(<<"Bearer", token>>, "ok").next
       /\ auth(<<"Bearer", token>>, "ok").user._id = resp.user._id

\* C19: the status handler, run for an admin whose :id is their own id, ends
\* the request at its lookup without saving: it answers 400 'You cannot change
\* your own status' (404 only if the record is gone by then, 500 only if the
\* lookup fails), never 200, 401 or 403, and leaves every stored user as it
\* was, whichever boolean was sent.
C19_OwnStatusRejected ==
  [][\A s \in Slots :
       /\ inflight[s].op = "status" /\ inflight[s].pc = "find"
       /\ inflight[s].id = inflight[s].reqUser
       /\ inflight'[s] # inflight[s]
       => /\ inflight'[s] = Idle
          /\ users' = users
          /\ resp'.route = "status"
          /\ resp'.status \in {400, 404, 500}
          /\ resp'.status = 404 => inflight[s].id \notin DOMAIN users
          /\ resp'.status = 400
               => /\ resp'.message = "You cannot change your own status"
                  /\ resp'.input = <<inflight[s].id, inflight[s].isActive>>]_vars

\* An admin asked to deactivate their own account and has been answered 400;
\* the account is still active and still holds its refresh token.
C19_Witness ==
  /\ resp.route = "status" /\ resp.status = 400
  /\ resp.message = "You cannot change your own status"
  /\ resp.input # <<>> /\ resp.input[2] = FALSE
  /\ resp.input[1] \in DOMAIN users
  /\ users[resp.input[1]].role = "admin"
  /\ users[resp.input[1]].isActive
  /\ users[resp.input[1]].refreshTokens # {}

\* C20: a request for GET, PUT, DELETE, like or comment that targets a stored
\* blog which is unpublished or a draft, from a requester who is neither its
\* author nor an admin, is answered 404 'Blog not found' (500 if the store
\* fails), never 403.
C20_DraftNeverLeaked ==
  /\ resp.route \in {"blogGet", "blogPut", "blogDelete", "blogLike", "blogComment"}
  /\ resp.input[1] \in DOMAIN blogs
  /\ Unpublished(blogs[resp.input[1]])
  /\ \/ resp.user = NullDoc
     \/ resp.user._id # blogs[resp.input[1]].author /\ resp.user.role # "admin"
  => \/ resp.status = 404 /\ resp.message = "Blog not found"
     \/ resp.status = 500

\* C21: findByCredentials writes only on success. A login that fails (unknown
\* email, inactive user, wrong password) is answered 401 with the store as it
\* was; a login that succeeds takes the time at that moment as lastLogin, and
\* its save changes that one field of that one user.
C21_WritesOnlyOnSuccess ==
  [][/\ resp = NoResp /\ resp'.route = "login" /\ resp'.status = 401 => users' = users
     /\ \A s \in Slots :
          /\ inflight[s] = Idle /\ inflight'[s].op = "login"
               => /\ users' = users
                  /\ inflight'[s].pc = "saveLastLogin"
                  /\ inflight'[s].delta = Delta("lastLogin" :> now, {})
          /\ inflight[s].op = "login" /\ inflight'[s].op = "login"
             /\ inflight[s].pc = "saveLastLogin" /\ inflight'[s].pc = "saveTokens"
               => users' = [users EXCEPT ![inflight[s].doc._id].lastLogin =
                                           inflight[s].delta.set.lastLogin]]_vars

\* One login has passed findByCredentials in second 1 and its lastLogin is
\* stored, while a failing login has just been answered 401.
C21_Witness ==
  /\ resp.route = "login" /\ resp.status = 401
  /\ \E s \in Slots :
       /\ inflight[s].op = "login" /\ inflight[s].pc = "saveTokens"
       /\ inflight[s].doc._id \in DOMAIN users
       /\ users[inflight[s].doc._id].lastLogin = 1

\* Names of errors other than the two jsonwebtoken ones that can be thrown
\* inside the try blocks.
OtherErrors == {"MongoError", "MongooseError", "TypeError"}

\* C22: a failure inside auth or verifyRefreshToken that is neither a
\* JsonWebTokenError nor a TokenExpiredError (the store lookup throws) ends the
\* request with 500 and the middleware's fixed message, whatever the error
\* was; next() is not called and no user is attached.
C22_OtherFailuresAre500 ==
  /\ \A error \in OtherErrors, lookup \in BOOLEAN :
       Rejects(authCatch(error, lookup), 500, "Server error during authentication")
  /\ \A header \in Headers :
       startsWithBearer(header) /\ Tail(header) # <<>>
       /\ jwtVerify(header[2], JWT_SECRET) = "ok"
         => Rejects(auth(header, "error"), 500, "Server error during authentication")
  /\ \A body \in Bodies :
       body # <<>> /\ jwtVerify(body[1], RefreshSecret) = "ok"
         => Rejects(verifyRefreshToken(body, "error"), 500,
                    "Server error during refresh token verification")
  /\ resp.route = "dashboard" /\ resp.status = 500
       => resp.message = "Server error during authentication"
          /\ ~resp.next /\ resp.user = NullDoc
  /\ resp.route = "refresh" /\ resp.status = 500
       => resp.message = "Server error during refresh token verification"
          /\ ~resp.next /\ resp.user = NullDoc

\* The dashboard was asked for with a verifying access token of a stored
\* active user while the store was unreachable, and answered 500.
C22_Witness ==
  /\ resp.route = "dashboard" /\ resp.status = 500
  /\ \E token \in issuedAccess :
       /\ resp.input = <<"Bearer", token>>
       /\ jwtVerify(token, JWT_SECRET) = "ok"
       /\ auth(resp.input, "ok").next
  /\ \E token \in issuedRefresh :
       /\ verifyRefreshToken(<<token>>, "ok").next
       /\ verifyRefreshToken(<<token>>, "error").status = 500

\* The two paths that must not leave the User model.
Sensitive == {"password", "refreshTokens"}

\* C23: the user auth and optionalAuth attach carries neither the password
\* hash nor the refresh tokens, so no answer of a route behind these gates
\* shows them; and toJSON of a user is the user without password and
\* refreshTokens, every other field kept.
C23_NoSensitiveFields ==
  /\ \A header \in Headers, db \in DbAnswers :
       /\ DOMAIN auth(header, db).user \cap Sensitive = {}
       /\ DOMAIN optionalAuth(header, db).user \cap Sensitive = {}
  /\ \A id \in DOMAIN users :
       /\ DOMAIN toJSON(users[id]) = DOMAIN users[id] \ Sensitive
       /\ \A f \in DOMAIN toJSON(users[id]) : toJSON(users[id])[f] = users[id][f]
  /\ resp.route \in {"dashboard", "logout", "status", "role", "blogGet", "blogPost", "blogPut",
                      "blogDelete", "blogLike", "blogComment", "blogDenied"}
       => DOMAIN resp.user \cap Sensitive = {}

\* A user who had logged in was deactivated: the 200 answer shows the user
\* through toJSON, with the new isActive and without the emptied refreshTokens,
\* while the admin's access token attaches the admin.
C23_Witness ==
  /\ resp.route = "status" /\ resp.status = 200
  /\ "isActive" \in DOMAIN resp.user /\ ~resp.user.isActive
  /\ \E token \in issuedRefresh : token.payload.id = resp.user._id
  /\ resp.user._id \in DOMAIN users /\ users[resp.user._id].refreshTokens = {}
  /\ \E token \in issuedAccess :
       /\ auth(<<"Bearer", token>>, "ok").next
       /\ auth(<<"Bearer", token>>, "ok").user.role = "admin"

\* C24: GET /:id answered at once with 200 is the author looking, and the blog
\* is left as it is; otherwise the handler takes the view count it read plus
\* one, and when its save goes through and it answers 200 the stored count is
\* that number and nothing else of the blog has changed; a 404 leaves every
\* blog as it is.
C24_ViewsCountedOnce ==
  [][/\ resp = NoResp /\ resp'.route = "blogGet" /\ resp'.status = 404 => blogs' = blogs
     /\ resp = NoResp /\ resp'.route = "blogGet" /\ resp'.status = 200 /\ inflight' = inflight
          => /\ blogs' = blogs
             /\ resp'.user # NullDoc
             /\ resp'.user._id = blogs[resp'.input[1]].author
     /\ \A s \in Slots :
          /\ inflight[s] = Idle /\ inflight'[s].op = "blogGet"
               => /\ blogs' = blogs
                  /\ inflight'[s].delta.set = ("views" :> (blogs[inflight'[s].blog].views + 1))
                  /\ \/ inflight'[s].reqUser = NullDoc
                     \/ inflight'[s].reqUser._id # blogs[inflight'[s].blog].author
          /\ inflight[s].op = "blogGet" /\ inflight'[s] = Idle
             /\ resp'.route = "blogGet" /\ resp'.status = 200
               => blogs' = [blogs EXCEPT ![inflight[s].blog].views =
                                           inflight[s].delta.set.views]]_vars

\* A requester without a user attached has been answered 200 and the blog's
\* view count stands at one.
C24_Witness ==
  /\ resp.route = "blogGet" /\ resp.status = 200
  /\ resp.user = NullDoc
  /\ resp.input[1] \in DOMAIN blogs
  /\ blogs[resp.input[1]].views = 1

\* C25: when the save of a deactivation through PUT /:id/status goes through,
\* the user's stored refreshTokens are empty, and no refresh token handed out
\* to that user before is accepted by verifyRefreshToken.
C25_DeactivationEmptiesTokens ==
  [][\A s \in Slots :
       /\ inflight[s].op = "status" /\ inflight[s].pc = "save"
       /\ inflight'[s] = Idle
       /\ resp'.route = "status" /\ resp'.status = 200
       /\ ~users'[inflight[s].doc._id].isActive
       => /\ users'[inflight[s].doc._id].refreshTokens = {}
          /\ \A token \in issuedRefresh :
               token.payload.id = inflight[s].doc._id
                 => ~(verifyRefreshToken(<<token>>, "ok").next)']_vars

\* C26: whether a request passes adminAuth follows the stored role of the
\* token's user, not the role claim signed into the token: every access token
\* that auth accepts passes the admin gate exactly when the stored role is
\* 'admin', and is answered 403 otherwise, whatever role its payload names.
C26_StoredRoleDecides ==
  \A token \in issuedAccess :
    LET header == <<"Bearer", token>>
        first == auth(header, "ok")
        gate == AdminGate(header, "ok")
    IN first.next
         => /\ first.user.role = users[token.payload.id].role
            /\ IF users[token.payload.id].role = "admin"
               THEN gate.next /\ gate.user.role = "admin"
               ELSE Rejects(gate, 403, "Access denied. Admin privileges required.")

\* The seeded user was made admin and then took the role away from the seeded
\* admin: the token issued to the former admin still names 'admin' and passes
\* auth but not the admin gate, and the token issued to the former user names
\* 'user' and passes the admin gate.
C26_Witness ==
  /\ resp.route = "role" /\ resp.status = 403
  /\ \E token \in issuedAccess :
       /\ token.payload.role = "admin"
       /\ auth(<<"Bearer", token>>, "ok").next
       /\ users[token.payload.id].role = "user"
       /\ AdminGate(<<"Bearer", token>>, "ok").status = 403
  /\ \E token \in issuedAccess :
       /\ token.payload.role = "user"
       /\ users[token.payload.id].role = "admin"
       /\ AdminGate(<<"Bearer", token>>, "ok").next

\* C27: under every interleaving of status and role requests, each let in by
\* auth and adminAuth when it started, the store keeps at least one active
\* user of role 'admin'.
C27_AdminRemains ==
  \E id \in DOMAIN users : users[id].isActive /\ users[id].role = "admin"

\* C28: in every reachable state a blog's likes hold at most one entry per
\* user, under any interleaving of like requests.
C28_OneLikePerUser ==
  \A id \in DOMAIN blogs :
    \A i, j \in 1..Len(blogs[id].likes) :
      blogs[id].likes[i] = blogs[id].likes[j] => i = j

\* isPublished is the negation of isDraft, and a published blog has a date.
DraftFlagsAgree ==
  \A id \in DOMAIN blogs :
    /\ blogs[id].isPublished = ~blogs[id].isDraft
    /\ blogs[id].isPublished => blogs[id].publishedAt # NoDate

\* C29: after every POST and PUT the stored blog has isPublished = not isDraft
\* and, if published, a publishedAt; and a publishedAt, once stored, is not
\* changed by any later update.
C29_PublishedAtSetOnce ==
  [][/\ DraftFlagsAgree /\ DraftFlagsAgree'
     /\ \A id \in DOMAIN blogs \cap DOMAIN blogs' :
          blogs[id].publishedAt # NoDate
            => blogs'[id].publishedAt = blogs[id].publishedAt]_vars


\* The requester may change the blog: its author, or an admin.
MayModify(user, blog) == blog.author = user._id \/ user.role = "admin"

\* The handler in slot s took a step.
Stepped(s) == inflight'[s] # inflight[s]

\* C30: a PUT or DELETE of an authenticated user who is neither the author nor
\* an admin is answered 403 and changes no blog; featured changes only in the
\* PUT of an admin; a featured sent by an author who is not an admin is left
\* out of the save while the draft status the author sent is written.
C30_OnlyAuthorOrAdminOnlyAdminFeatures ==
  [][/\ \A s \in Slots :
          inflight[s].op \in {"blogPut", "blogDelete"} /\ Stepped(s) /\ blogs' # blogs
            => /\ MayModify(inflight[s].reqUser, blogs[inflight[s].blog])
               /\ \A id \in DOMAIN blogs \ {inflight[s].blog} :
                    id \in DOMAIN blogs' /\ blogs'[id] = blogs[id]
     /\ resp = NoResp /\ resp' # NoResp /\ resp'.route \in {"blogPut", "blogDelete"}
          /\ resp'.status = 403
          => /\ blogs' = blogs
             /\ inflight' = inflight
             /\ ~MayModify(resp'.user, blogs[resp'.input[1]])
     /\ \A s \in Slots :
          inflight[s].op = "idle" /\ inflight'[s].op \in {"blogPut", "blogDelete"}
            => /\ blogs' = blogs
               /\ MayModify(inflight'[s].reqUser, blogs[inflight'[s].blog])
               /\ inflight'[s].op = "blogPut" /\ inflight'[s].reqUser.role # "admin"
                    => LET rec == inflight'[s]
                           doc == rec.delta.set @@ blogs[rec.blog]
                       IN /\ "featured" \notin DOMAIN rec.delta.set
                          /\ rec.body.isDraft # "undefined"
                               => /\ doc.isDraft = (rec.body.isDraft = "true")
                                  /\ doc.isPublished = ~doc.isDraft
     /\ \A id \in DOMAIN blogs \cap DOMAIN blogs' :
          blogs'[id].featured # blogs[id].featured
            => \E s \in Slots :
                 /\ inflight[s].op = "blogPut" /\ inflight[s].blog = id /\ Stepped(s)
                 /\ inflight[s].reqUser.role = "admin"
                 /\ inflight[s].body.featured # "undefined"
                 /\ blogs'[id].featured = (inflight[s].body.featured = "true")
     /\ \A s \in Slots :
          inflight[s].op = "blogPut" /\ Stepped(s) /\ resp'.status = 200
            => \A p \in DOMAIN inflight[s].delta.set :
                 blogs'[inflight[s].blog][p] = inflight[s].delta.set[p]]_vars

\* An author who is not an admin sent featured with a draft status: the save
\* went through, the draft status is stored and featured is not.
C30_Witness ==
  /\ resp.route = "blogPut" /\ resp.status = 200
  /\ resp.user.role # "admin"
  /\ resp.input[2] = [isDraft |-> "true", featured |-> "true"]
  /\ resp.input[1] \in DOMAIN blogs
  /\ blogs[resp.input[1]].author = resp.user._id
  /\ blogs[resp.input[1]].isDraft
  /\ ~blogs[resp.input[1]].featured
  /\ \E id \in DOMAIN blogs : blogs[id].featured

====
